---- MODULE Spec2Model ----
(***************************************************************************)
(* Model of ECSOperator (airflow/providers/amazon/aws/operators/ecs.py):   *)
(* one operator invocation launches or reattaches to a remote ECS task,    *)
(* waits for it to stop, classifies the terminal description and clears    *)
(* the XCom entry that makes the run reattachable.                         *)
(*                                                                         *)
(* Python dictionaries with optional keys are records whose fields are     *)
(* options: <<>> for a missing key, <<v>> for a key holding v.  Strings    *)
(* are TLA+ strings; substring search, lower-casing and the regular        *)
(* expression of _check_success_task are computed on their characters.     *)
(***************************************************************************)
EXTENDS Integers, Sequences, FiniteSets, TLC

\* ------------------------------------------------------------------ bounds
MaxInv == 2          \* operator invocations (task-instance tries) modelled
MaxTasks == 2        \* remote tasks the ECS service will start
MaxDates == 2        \* execution dates of the DAG run
MaxContainers == 2   \* containers in a described task

Invs == 1..MaxInv
ExecDates == 1..MaxDates

\* ----------------------------------------------------------------- strings
None == "None"

Missing == <<>>
Some(v) == <<v>>

\* dict.get(key, default)
Get(opt, default) == IF opt = Missing THEN default ELSE opt[1]

\* Python's `p in s` for two strings
Contains(p, s) ==
    \E k \in 1..(Len(s) - Len(p) + 1) : SubSeq(s, k, k + Len(p) - 1) = p

StartsWith(s, p) == Len(s) >= Len(p) /\ SubSeq(s, 1, Len(p)) = p

LowerChar(c) ==
    CASE c = "A" -> "a" [] c = "B" -> "b" [] c = "C" -> "c" [] c = "D" -> "d"
      [] c = "E" -> "e" [] c = "F" -> "f" [] c = "G" -> "g" [] c = "H" -> "h"
      [] c = "I" -> "i" [] c = "J" -> "j" [] c = "K" -> "k" [] c = "L" -> "l"
      [] c = "M" -> "m" [] c = "N" -> "n" [] c = "O" -> "o" [] c = "P" -> "p"
      [] c = "Q" -> "q" [] c = "R" -> "r" [] c = "S" -> "s" [] c = "T" -> "t"
      [] c = "U" -> "u" [] c = "V" -> "v" [] c = "W" -> "w" [] c = "X" -> "x"
      [] c = "Y" -> "y" [] c = "Z" -> "z" [] OTHER -> c

RECURSIVE Lower(_)
\* str.lower()
Lower(s) ==
    IF Len(s) = 0 THEN ""
    ELSE LowerChar(SubSeq(s, 1, 1)) \o Lower(SubSeq(s, 2, Len(s)))

\* re.match(r'Host EC2 \(instance .+?\) (stopped|terminated)\.', s):
\* anchored at the start of s, one or more characters other than a newline
\* for `.+?`, anything may follow the final dot.
HostStoppedRegex(s) ==
    LET prefix == "Host EC2 (instance "
    IN  /\ StartsWith(s, prefix)
        /\ \E k \in (Len(prefix) + 2)..Len(s) :
              /\ \A m \in (Len(prefix) + 1)..(k - 1) : SubSeq(s, m, m) # "\n"
              /\ \E suffix \in {") stopped.", ") terminated."} :
                    /\ k + Len(suffix) - 1 <= Len(s)
                    /\ SubSeq(s, k, k + Len(suffix) - 1) = suffix

\* ------------------------------------------------- should_retry (line 35)
QuotaReasons == <<"RESOURCE:MEMORY", "RESOURCE:CPU">>

\* An exception is [type |-> class name, failures |-> sequence of failures].
should_retry(exception) ==
    IF exception.type = "ECSOperatorError"
    THEN \E q \in 1..Len(QuotaReasons) : \E f \in 1..Len(exception.failures) :
            Contains(QuotaReasons[q], exception.failures[f].reason)
    ELSE FALSE

\* ------------------------------------- _check_success_task (lines 363-388)
\* Outcomes of the evaluation.  The five failures are the AirflowException
\* raised at lines 364, 372, 380, 382 and 384; "KeyError" is the exception of
\* a subscript on a missing key; "Success" is falling off the end.
Success == "Success"
ServiceReportedFailure == "service-reported-failure"
HostTerminated == "host-terminated"
ContainerNonZeroExit == "container-nonzero-exit"
ContainerStillPending == "container-still-pending"
ContainerLaunchError == "container-launch-error"
KeyError == "KeyError"

Failures ==
    {ServiceReportedFailure, HostTerminated, ContainerNonZeroExit,
     ContainerStillPending, ContainerLaunchError}
Verdicts == {Success} \cup Failures

\* One iteration of `for container in containers` (lines 379-388): the
\* exception it raises, or Success when it raises none.
CheckContainer(container) ==
    IF container.lastStatus = Some("STOPPED")
    THEN IF container.exitCode = Missing THEN KeyError
         ELSE IF container.exitCode[1] # 0 THEN ContainerNonZeroExit
         ELSE IF Contains("error", Lower(Get(container.reason, "")))
              THEN ContainerLaunchError
              ELSE Success
    ELSE IF container.lastStatus = Some("PENDING") THEN ContainerStillPending
    ELSE IF Contains("error", Lower(Get(container.reason, "")))
         THEN ContainerLaunchError
         ELSE Success

RECURSIVE CheckContainers(_)
\* `for container in containers`: the first iteration that raises ends it
CheckContainers(containers) ==
    IF containers = <<>> THEN Success
    ELSE LET r == CheckContainer(Head(containers))
         IN  IF r # Success THEN r ELSE CheckContainers(Tail(containers))

RECURSIVE CheckTasksContainersFirst(_)
\* CheckTasks with the container loop moved before the stoppedReason test
CheckTasksContainersFirst(tasks) ==
    IF tasks = <<>> THEN Success
    ELSE LET task == Head(tasks)
             r == CheckContainers(task.containers)
         IN  IF r # Success THEN r
             ELSE IF HostStoppedRegex(Get(task.stoppedReason, ""))
             THEN HostTerminated
             ELSE CheckTasksContainersFirst(Tail(tasks))

RECURSIVE CheckTasks(_)
\* `for task in response['tasks']` (lines 366-388)
CheckTasks(tasks) ==
    IF tasks = <<>> THEN Success
    ELSE LET task == Head(tasks)
         IN  IF HostStoppedRegex(Get(task.stoppedReason, ""))
             THEN HostTerminated
             ELSE LET r == CheckContainers(task.containers)
                  IN  IF r # Success THEN r ELSE CheckTasks(Tail(tasks))

\* CheckResponse with the failures test moved after the loop over the tasks
CheckResponseTasksFirst(response) ==
    LET r == CheckTasks(response.tasks)
    IN  IF r # Success THEN r
        ELSE IF Len(Get(response.failures, <<>>)) > 0
        THEN ServiceReportedFailure
        ELSE Success

\* The checks of _check_success_task on a describe_tasks response
CheckResponse(response) ==
    IF Len(Get(response.failures, <<>>)) > 0 THEN ServiceReportedFailure
    ELSE CheckTasks(response.tasks)

\* --------------------------------------------------- identifiers and inputs
cluster == "c1"
KillReason == "Task killed by the user"

Digits == <<"1", "2", "3", "4", "5", "6", "7", "8", "9">>
\* The ARN of the n-th task the service starts
ArnOf(n) == "arn:aws:ecs:task/c1/" \o Digits[n]
Arns == {ArnOf(n) : n \in 1..MaxTasks}

\* response['failures'] of run_task when the launch is rejected
StartFailures ==
    {<<[reason |-> "RESOURCE:CPU"]>>,
     <<[reason |-> "AGENT"]>>,
     <<[reason |-> "AGENT"], [reason |-> "RESOURCE:MEMORY"]>>}

HostTerminatedReason == "Host EC2 (instance i-123) terminated."
HostStoppedReason == "Host EC2 (instance i-123) stopped."

LastStatuses == {Missing, Some("STOPPED"), Some("PENDING")}
ExitCodes == {Missing, Some(0), Some(1)}
Reasons ==
    {Missing, Some("OutOfMemory: container killed"),
     Some("CannotPullContainerError: pull access denied")}
StoppedReasons ==
    {Missing, Some("Essential container in task exited"),
     Some(HostTerminatedReason), Some(HostStoppedReason),
     Some("Scaling activity: Host EC2 (instance i-123) terminated.")}
DescribeFailures ==
    {Missing, Some(<<>>), Some(<<[reason |-> "MISSING"]>>)}

Containers ==
    [lastStatus : LastStatuses, exitCode : ExitCodes, reason : Reasons]
ContainerSeqs == UNION {[1..n -> Containers] : n \in 0..MaxContainers}
TaskDescriptions == [stoppedReason : StoppedReasons, containers : ContainerSeqs]

\* Every describe_tasks response for one task the evaluation is checked on
DescribeResponses ==
    [failures : DescribeFailures,
     tasks : {<<>>} \cup {<<t>> : t \in TaskDescriptions}]

Container(status, code, reason) ==
    [lastStatus |-> status, exitCode |-> code, reason |-> reason]
Described(failures, stoppedReason, containers) ==
    [failures |-> failures,
     tasks |-> <<[stoppedReason |-> stoppedReason, containers |-> containers]>>]

\* The terminal descriptions a task of the supervised runs stops with
StopResponses ==
    {Described(Some(<<>>), Some("Essential container in task exited"),
               <<Container(Some("STOPPED"), Some(0), Missing)>>),
     Described(Some(<<>>), Some("Essential container in task exited"),
               <<Container(Some("STOPPED"), Some(1), Missing)>>)}

\* The description of a task stopped by stop_task
KilledResponse ==
    Described(Some(<<>>), Some(KillReason),
              <<Container(Some("STOPPED"), Some(137), Missing)>>)

\* ------------------------------------------------ the operator's arguments
\* Python truth of a string argument that may be None
Truthy(s) == s # None /\ s # ""

\* Python truth of a list argument: Missing is None, Some(<<>>) the empty list
TruthyList(l) == l # Missing /\ l[1] # <<>>

AwslogsGroups == {None, "", "ecs-logs"}
AwslogsStreamPrefixes == {None, "", "ecs/app"}
CapacityProviderStrategies ==
    {Missing, Some(<<>>),
     Some(<<[capacityProvider |-> "FARGATE_SPOT", weight |-> 1]>>)}
LaunchTypes == {None, "EC2", "FARGATE"}
PlatformVersions == {"LATEST", "1.4.0"}

\* run_opts that carries the platform version with every launch type
run_opts_platform_always(strategy, ltype, pversion) ==
    LET base == [cluster |-> cluster, capacityProviderStrategy |-> Missing,
                 launchType |-> Missing, platformVersion |-> Missing]
    IN  IF TruthyList(strategy)
        THEN [base EXCEPT !.capacityProviderStrategy = Some(strategy[1]),
                          !.platformVersion = Some(pversion)]
        ELSE IF Truthy(ltype)
        THEN [base EXCEPT !.launchType = Some(ltype),
                          !.platformVersion = Some(pversion)]
        ELSE base

\* run_opts of _start_task, lines 248-261: the launch fields of the run_task
\* request.  The keys of lines 262-273 are each copied from one argument of
\* their own and are left out.
run_opts(strategy, ltype, pversion) ==
    LET base == [cluster |-> cluster, capacityProviderStrategy |-> Missing,
                 launchType |-> Missing, platformVersion |-> Missing]
    IN  IF TruthyList(strategy)
        THEN [base EXCEPT !.capacityProviderStrategy = Some(strategy[1]),
                          !.platformVersion = Some(pversion)]
        ELSE IF Truthy(ltype)
        THEN [base EXCEPT !.launchType = Some(ltype),
                          !.platformVersion = IF ltype = "FARGATE"
                                              THEN Some(pversion)
                                              ELSE Missing]
        ELSE base

\* -------------------------------------------------------- CloudWatch logs
\* self._aws_logs_enabled(), lines 342-343
aws_logs_enabled(group, prefix) == Truthy(group) /\ Truthy(prefix)

\* s.split("/")[-1]: what follows the last "/" of s, all of s without one
LastComponent(s) ==
    LET slashes == {k \in 1..Len(s) : SubSeq(s, k, k) = "/"}
    IN  IF slashes = {} THEN s
        ELSE SubSeq(s, (CHOOSE k \in slashes : \A m \in slashes : m <= k) + 1,
                    Len(s))

\* stream_name made of the prefix and the whole ARN
stream_name_whole_arn(prefix, taskArn) == prefix \o "/" \o taskArn

\* stream_name of lines 336-337
stream_name(prefix, taskArn) == prefix \o "/" \o LastComponent(taskArn)

\* A log event of AwsLogsHook.get_log_events
LogEvent(timestamp, message) == [timestamp |-> timestamp, message |-> message]
LogEvents ==
    {<<>>,
     <<LogEvent(1000, "starting")>>,
     <<LogEvent(1000, "starting"), LogEvent(2000, "finished")>>}

\* The stream the awslogs driver writes the n-th task's output to
LogStreamOf(n) == "ecs/app/" \o Digits[n]
LogStreams == {LogStreamOf(n) : n \in 1..MaxTasks}

\* get_logs_hook().get_log_events(group, stream), line 338: the events the
\* backend holds for the stream, none for a stream it does not hold
get_log_events(backend, group, stream) ==
    IF group = "ecs-logs" /\ stream \in DOMAIN backend
    THEN backend[stream]
    ELSE <<>>

\* _cloudwatch_log_events, lines 334-340: the events the generator yields
cloudwatch_log_events(backend, group, prefix, taskArn) ==
    IF aws_logs_enabled(group, prefix)
    THEN get_log_events(backend, group, stream_name(prefix, taskArn))
    ELSE <<>>

\* _cloudwatch_log_events, lines 334-340: the query it makes on the backend
CloudwatchLogCalls(group, prefix, taskArn) ==
    IF aws_logs_enabled(group, prefix)
    THEN <<[op |-> "get_log_events", group |-> group,
            stream |-> stream_name(prefix, taskArn)]>>
    ELSE <<>>

\* last_log_message that returns the message of the first event
first_log_message(events) ==
    IF events = <<>> THEN None ELSE events[1].message

\* _last_log_message, lines 345-349, on the events of the generator:
\* deque(events, maxlen=1).pop()["message"], None on IndexError
last_log_message(events) ==
    IF events = <<>> THEN None ELSE events[Len(events)].message

\* ---------------------------------------------------------------- state
VARIABLES
    pc,              \* position of each invocation in execute
    reattach,        \* self.reattach
    execution_date,  \* context["ti"].execution_date of the invocation
    client,          \* self.client is set
    arn,             \* self.arn, None until a task is started or adopted
    calls,           \* the calls each invocation made on its collaborators
    raised,          \* the exception that ended the invocation, if any
    xcom,            \* XCom rows of (dag_id, "<task_id>_task_arn"), by date
    ecs,             \* the tasks of the ECS service, by ARN
    awslogs_group,              \* self.awslogs_group
    awslogs_stream_prefix,      \* self.awslogs_stream_prefix
    do_xcom_push,               \* self.do_xcom_push
    capacity_provider_strategy, \* self.capacity_provider_strategy
    launch_type,                \* self.launch_type
    platform_version,           \* self.platform_version
    logs,            \* the events of the CloudWatch log streams, by name
    returned         \* what execute returned, None until it returns

\* The arguments the operator was built with and the log backend: no
\* operation assigns them
settings ==
    <<awslogs_group, awslogs_stream_prefix, do_xcom_push,
      capacity_provider_strategy, launch_type, platform_version, logs>>

vars ==
    <<pc, reattach, execution_date, client, arn, calls, raised, xcom, ecs,
      settings, returned>>

NoException == [type |-> "", failures |-> <<>>, verdict |-> ""]
Raise(type, failures, verdict) ==
    [type |-> type, failures |-> failures, verdict |-> verdict]

Active == {"REATTACHING", "STARTING", "WAITING", "EVALUATING"}
Terminal == {"DONE", "FAILED", "CANCELLED", "ABANDONED"}

NotStarted == [status |-> "NONE", stopReason |-> Missing, response |-> Missing]
Started == {a \in Arns : ecs[a].status # "NONE"}
Running == {a \in Arns : ecs[a].status = "RUNNING"}

Called(i, call) == calls' = [calls EXCEPT ![i] = calls[i] \o call]
CallsOf(i, op) == {k \in 1..Len(calls[i]) : calls[i][k].op = op}

\* The arguments of lines 167-180 at their defaults, with the awslogs driver
\* configured; every task has written two events to its stream
DefaultSettings ==
    /\ awslogs_group = "ecs-logs"
    /\ awslogs_stream_prefix = "ecs/app"
    /\ do_xcom_push = TRUE
    /\ capacity_provider_strategy = Missing
    /\ launch_type = "EC2"
    /\ platform_version = "LATEST"
    /\ logs = [s \in LogStreams |->
                <<LogEvent(1000, "starting"), LogEvent(2000, "finished")>>]

\* ecs.py lines 159-211: nothing remote exists, no client, no handle
Init ==
    /\ pc = [i \in Invs |-> "INIT"]
    /\ reattach \in [Invs -> BOOLEAN]
    /\ execution_date = [i \in Invs |-> 0]
    /\ client = [i \in Invs |-> FALSE]
    /\ arn = [i \in Invs |-> None]
    /\ calls = [i \in Invs |-> <<>>]
    /\ raised = [i \in Invs |-> NoException]
    /\ xcom = [d \in ExecDates |-> None]
    /\ ecs = [a \in Arns |-> NotStarted]
    /\ DefaultSettings
    /\ returned = [i \in Invs |-> None]

\* ---------------------------------------------------- the XCom side table
\* XComSet that writes nothing
XComSetDropped(store, date, value) == store

\* XCom.set(key, value, task_id, dag_id, execution_date), lines 295-302
XComSet(store, date, value) == [store EXCEPT ![date] = value]

\* XComPull that finds no row
XComPullNothing(store, date) == None

\* self.xcom_pull(task_ids, key), lines 314-317: the row of this run's date
XComPull(store, date) == store[date]

\* session.query(XCom).filter(dag_id, task_id).delete(), lines 244-245: the
\* filter names no execution date, every row of the task is deleted
XComDel(store) == [d \in DOMAIN store |-> None]

\* ------------------------------------------------------------ operations
\* execute, lines 214-226: get the client, then reattach or start.
\* Invocations are numbered in the order in which they begin, execution
\* dates in the order in which a run first uses them.
Execute(i) ==
    /\ pc[i] = "INIT"
    /\ \A j \in Invs : j < i => pc[j] # "INIT"
    /\ \E d \in ExecDates :
          /\ d = 1 \/ \E j \in Invs : execution_date[j] = d - 1
          /\ execution_date' = [execution_date EXCEPT ![i] = d]
    /\ client' = [client EXCEPT ![i] = TRUE]
    /\ pc' = [pc EXCEPT ![i] = IF reattach[i] THEN "REATTACHING" ELSE "STARTING"]
    /\ UNCHANGED <<settings, returned>>
    /\ UNCHANGED <<reattach, arn, calls, raised, xcom, ecs>>

\* PreviousTaskRunning that never reattaches
PreviousTaskNeverRunning(previous_task_arn, taskArns) == FALSE

\* `previous_task_arn in running_tasks`, line 318
PreviousTaskRunning(previous_task_arn, taskArns) == previous_task_arn \in taskArns

\* _try_reattach_task, lines 304-322, and `if not self.arn` of line 225
TryReattach(i) ==
    /\ pc[i] = "REATTACHING"
    /\ LET running_tasks == Running
           previous_task_arn == XComPull(xcom, execution_date[i])
           queried == <<[op |-> "describe_task_definition"],
                        [op |-> "list_tasks", cluster |-> cluster],
                        [op |-> "xcom_pull", date |-> execution_date[i]]>>
       IN  IF PreviousTaskRunning(previous_task_arn, running_tasks)
           THEN /\ arn' = [arn EXCEPT ![i] = previous_task_arn]
                /\ Called(i, queried \o
                              <<[op |-> "log.info",
                                 msg |-> "Reattaching previously launched task: %s",
                                 task |-> previous_task_arn]>>)
           ELSE /\ UNCHANGED arn
                /\ Called(i, queried \o
                              <<[op |-> "log.info",
                                 msg |-> "No active previously launched task found to reattach"]>>)
    /\ pc' = [pc EXCEPT ![i] = IF arn'[i] = None THEN "STARTING" ELSE "WAITING"]
    /\ UNCHANGED <<settings, returned>>
    /\ UNCHANGED <<reattach, execution_date, client, raised, xcom, ecs>>

\* quota_retry that repeats a rejected run_task once, whatever the reason
quota_retry_any(exception, attempts) == attempts < 2

\* execute calls _start_task directly (line 226) and _start_task carries no
\* retry wrapper (line 247): should_retry is never consulted and the
\* exception of line 279 always leaves execute, whatever run_task call it is.
quota_retry(exception, attempts) == FALSE

\* self.client.run_task(**run_opts), line 275
RunTask ==
    [op |-> "run_task", cluster |-> cluster,
     opts |-> run_opts(capacity_provider_strategy, launch_type,
                       platform_version)]

\* SavedArn that saves nothing
SavedArnNever(reattachOn, date, taskArn) == <<>>

\* SavedArn that saves the ARN whatever self.reattach is
SavedArnAlways(reattachOn, date, taskArn) ==
    <<[op |-> "xcom_set", date |-> date, value |-> taskArn]>>

\* _start_task, lines 286-293: the XCom.set call made once self.arn is set
SavedArn(reattachOn, date, taskArn) ==
    IF reattachOn
    THEN <<[op |-> "xcom_set", date |-> date, value |-> taskArn]>>
    ELSE <<>>

\* _start_task, lines 248-293, when run_task returns a started task
StartTask(i) ==
    /\ pc[i] = "STARTING"
    /\ Cardinality(Started) < MaxTasks
    /\ LET taskArn == ArnOf(Cardinality(Started) + 1)
           run == RunTask
       IN  /\ ecs' = [ecs EXCEPT ![taskArn].status = "RUNNING"]
           /\ arn' = [arn EXCEPT ![i] = taskArn]
           /\ xcom' = IF reattach[i]
                      THEN XComSet(xcom, execution_date[i], taskArn)
                      ELSE xcom
           /\ Called(i, <<run>> \o SavedArn(reattach[i], execution_date[i],
                                            taskArn))
    /\ pc' = [pc EXCEPT ![i] = "WAITING"]
    /\ UNCHANGED <<settings, returned>>
    /\ UNCHANGED <<reattach, execution_date, client, raised>>

\* _start_task, lines 248-279, when run_task returns launch failures
StartTaskRejected(i) ==
    /\ pc[i] = "STARTING"
    /\ Called(i, <<RunTask>>)
    /\ \E failures \in StartFailures :
          LET exception == Raise("ECSOperatorError", failures, "")
          IN  IF quota_retry(exception, Cardinality(CallsOf(i, "run_task")) + 1)
              THEN UNCHANGED <<pc, raised>>
              ELSE /\ pc' = [pc EXCEPT ![i] = "FAILED"]
                   /\ raised' = [raised EXCEPT ![i] = exception]
    /\ UNCHANGED <<settings, returned>>
    /\ UNCHANGED <<reattach, execution_date, client, arn,
                   xcom, ecs>>

\* The ECS service: a running task reaches STOPPED with its description
TaskStops(a) ==
    /\ ecs[a].status = "RUNNING"
    /\ \E response \in StopResponses \cup
                        (IF ecs[a].stopReason = Missing THEN {}
                         ELSE {KilledResponse}) :
          ecs' = [ecs EXCEPT ![a].status = "STOPPED",
                             ![a].response = Some(response)]
    /\ UNCHANGED <<settings, returned>>
    /\ UNCHANGED <<pc, reattach, execution_date, client, arn,
                   calls, raised, xcom>>

\* tasks_stopped that gives up on a task that is still running
tasks_stopped_or_timeout(status) == TRUE

\* The waiter 'tasks_stopped' with max_attempts = sys.maxsize, lines 328-330:
\* wait returns when the task it polls is stopped, and only then
tasks_stopped(status) == status = "STOPPED"

\* _wait_for_task_ended, lines 324-332: the waiter returns once the task is
\* stopped; it has no attempt limit (line 329)
WaitForTaskEnded(i) ==
    /\ pc[i] = "WAITING"
    /\ IF ~client[i] \/ arn[i] = None
       THEN UNCHANGED calls
       ELSE /\ tasks_stopped(ecs[arn[i]].status)
            /\ Called(i, <<[op |-> "wait", cluster |-> cluster,
                            task |-> arn[i]]>>)
    /\ pc' = [pc EXCEPT ![i] = "EVALUATING"]
    /\ UNCHANGED <<settings, returned>>
    /\ UNCHANGED <<reattach, execution_date, client, arn,
                   raised, xcom, ecs>>

\* The exception class of an evaluation that does not succeed
ExceptionOf(verdict) ==
    IF verdict = KeyError THEN "KeyError" ELSE "AirflowException"

\* check_success_calls that reads the log events of a successful task only
check_success_calls_success_only(taskArn, verdict) ==
    <<[op |-> "describe_tasks", cluster |-> cluster, task |-> taskArn]>>
    \o (IF verdict = Success
        THEN CloudwatchLogCalls(awslogs_group, awslogs_stream_prefix, taskArn)
        ELSE <<>>)

\* _check_success_task, lines 355-361: the calls it makes before the checks
\* of lines 363-388 give their verdict
check_success_calls(taskArn, verdict) ==
    <<[op |-> "describe_tasks", cluster |-> cluster, task |-> taskArn]>>
    \o CloudwatchLogCalls(awslogs_group, awslogs_stream_prefix, taskArn)

\* execute, lines 239-242: what execute returns
execute_returns(taskArn) ==
    IF do_xcom_push
    THEN last_log_message(cloudwatch_log_events(logs, awslogs_group,
                                                awslogs_stream_prefix, taskArn))
    ELSE None

\* execute, lines 230-242: _check_success_task (lines 351-388) and, when it
\* raises nothing, the deletion of the XCom row under reattach and the
\* return of the last log message
CheckSuccessTask(i) ==
    /\ pc[i] = "EVALUATING"
    /\ LET described == ~(~client[i] \/ arn[i] = None)
           verdict == IF described
                      THEN CheckResponse(ecs[arn[i]].response[1])
                      ELSE Success
           checked == IF described
                      THEN check_success_calls(arn[i], verdict)
                      ELSE <<>>
           deleted == IF reattach[i] THEN <<[op |-> "xcom_del"]>> ELSE <<>>
           tailed == IF do_xcom_push
                     THEN CloudwatchLogCalls(awslogs_group,
                                             awslogs_stream_prefix, arn[i])
                     ELSE <<>>
       IN  IF verdict = Success
           THEN /\ pc' = [pc EXCEPT ![i] = "DONE"]
                /\ UNCHANGED raised
                /\ xcom' = IF reattach[i] THEN XComDel(xcom) ELSE xcom
                /\ returned' = [returned EXCEPT ![i] = execute_returns(arn[i])]
                /\ Called(i, checked \o deleted \o tailed)
           ELSE /\ pc' = [pc EXCEPT ![i] = "FAILED"]
                /\ raised' = [raised EXCEPT ![i] =
                                 Raise(ExceptionOf(verdict), <<>>, verdict)]
                /\ Called(i, checked)
                /\ UNCHANGED <<xcom, returned>>
    /\ UNCHANGED settings
    /\ UNCHANGED <<reattach, execution_date, client, arn, ecs>>

\* KillCalls that describes the task after asking for the stop
KillCallsConfirmed(hasClient, taskArn) ==
    IF ~hasClient \/ taskArn = None
    THEN <<>>
    ELSE <<[op |-> "stop_task", cluster |-> cluster, task |-> taskArn,
            reason |-> KillReason],
           [op |-> "describe_tasks", cluster |-> cluster, task |-> taskArn]>>

\* KillCalls that asks for the stop without a task ARN
KillCallsUnguarded(hasClient, taskArn) ==
    IF ~hasClient
    THEN <<>>
    ELSE <<[op |-> "stop_task", cluster |-> cluster, task |-> taskArn,
            reason |-> KillReason]>>

\* on_kill, lines 403-408: the calls it makes on the ECS client
KillCalls(hasClient, taskArn) ==
    IF ~hasClient \/ taskArn = None
    THEN <<>>
    ELSE <<[op |-> "stop_task", cluster |-> cluster, task |-> taskArn,
            reason |-> KillReason]>>

\* on_kill, lines 402-409; the host then ends the invocation
OnKill(i) ==
    /\ pc[i] \in {"INIT"} \cup Active
    /\ \A j \in Invs : j < i => pc[j] # "INIT"
    /\ LET made == KillCalls(client[i], arn[i])
           Stops(a) == {k \in 1..Len(made) :
                          made[k].op = "stop_task" /\ made[k].task = a}
       IN  /\ Called(i, made)
           /\ ecs' = [a \in Arns |->
                        IF Stops(a) = {} THEN ecs[a]
                        ELSE [ecs[a] EXCEPT !.stopReason =
                                Some(made[CHOOSE k \in Stops(a) : TRUE].reason)]]
    /\ pc' = [pc EXCEPT ![i] = "CANCELLED"]
    /\ UNCHANGED <<settings, returned>>
    /\ UNCHANGED <<reattach, execution_date, client, arn,
                   raised, xcom>>

\* The worker running execute dies during the wait: no on_kill, no cleanup
Abandon(i) ==
    /\ pc[i] = "WAITING"
    /\ pc' = [pc EXCEPT ![i] = "ABANDONED"]
    /\ UNCHANGED <<settings, returned>>
    /\ UNCHANGED <<reattach, execution_date, client, arn,
                   calls, raised, xcom, ecs>>

Next ==
    \/ \E i \in Invs : Execute(i)
    \/ \E i \in Invs : TryReattach(i)
    \/ \E i \in Invs : StartTask(i)
    \/ \E i \in Invs : StartTaskRejected(i)
    \/ \E a \in Arns : TaskStops(a)
    \/ \E i \in Invs : WaitForTaskEnded(i)
    \/ \E i \in Invs : CheckSuccessTask(i)
    \/ \E i \in Invs : OnKill(i)
    \/ \E i \in Invs : Abandon(i)

Spec == Init /\ [][Next]_vars

TypeOK ==
    /\ pc \in [Invs -> {"INIT"} \cup Active \cup Terminal]
    /\ arn \in [Invs -> Arns \cup {None}]
    /\ xcom \in [ExecDates -> Arns \cup {None}]
    /\ \A i \in Invs : pc[i] \in {"WAITING", "EVALUATING", "DONE"} => arn[i] # None

\* execute runs its statements one after the other: an invocation that is
\* neither killed nor abandoned returns from the waiter once its task is
\* stopped (line 330) and then checks the task (line 230).  Nothing makes a
\* running task stop.
Fairness ==
    \A i \in Invs :
        /\ WF_vars(WaitForTaskEnded(i))
        /\ WF_vars(CheckSuccessTask(i))

\* --------------------------------------------------- the wait on its own
\* The invocations that the service has a task for have each started their
\* own task, without reattach, and are in the wait; the others have not
\* begun.
InitWait ==
    /\ DefaultSettings
    /\ reattach = [i \in Invs |-> FALSE]
    /\ pc = [i \in Invs |-> IF i <= MaxTasks THEN "WAITING" ELSE "INIT"]
    /\ execution_date = [i \in Invs |-> IF i <= MaxTasks THEN 1 ELSE 0]
    /\ client = [i \in Invs |-> i <= MaxTasks]
    /\ arn = [i \in Invs |-> IF i <= MaxTasks THEN ArnOf(i) ELSE None]
    /\ calls = [i \in Invs |-> IF i <= MaxTasks THEN <<RunTask>> ELSE <<>>]
    /\ raised = [i \in Invs |-> NoException]
    /\ xcom = [d \in ExecDates |-> None]
    /\ ecs = [a \in Arns |->
                IF \E i \in Invs : i <= MaxTasks /\ a = ArnOf(i)
                THEN [NotStarted EXCEPT !.status = "RUNNING"]
                ELSE NotStarted]
    /\ returned = [i \in Invs |-> None]

NextWait ==
    \/ \E a \in Arns : TaskStops(a)
    \/ \E i \in Invs : WaitForTaskEnded(i)
    \/ \E i \in Invs : CheckSuccessTask(i)
    \/ \E i \in Invs : OnKill(i)
    \/ \E i \in Invs : Abandon(i)

SpecWait == InitWait /\ [][NextWait]_vars /\ Fairness

\* ------------------------------------------- the evaluation on its inputs
\* One invocation has started its task and returned from the wait; the task
\* stopped with any of the describe_tasks responses.
InitEval ==
    /\ DefaultSettings
    /\ pc = [i \in Invs |-> IF i = 1 THEN "EVALUATING" ELSE "INIT"]
    /\ reattach = [i \in Invs |-> FALSE]
    /\ execution_date = [i \in Invs |-> IF i = 1 THEN 1 ELSE 0]
    /\ client = [i \in Invs |-> i = 1]
    /\ arn = [i \in Invs |-> IF i = 1 THEN ArnOf(1) ELSE None]
    /\ calls = [i \in Invs |->
                  IF i = 1
                  THEN <<RunTask,
                         [op |-> "wait", cluster |-> cluster, task |-> ArnOf(1)]>>
                  ELSE <<>>]
    /\ raised = [i \in Invs |-> NoException]
    /\ xcom = [d \in ExecDates |-> None]
    /\ returned = [i \in Invs |-> None]
    /\ \E response \in DescribeResponses :
          ecs = [a \in Arns |->
                   IF a = ArnOf(1)
                   THEN [status |-> "STOPPED", stopReason |-> Missing,
                         response |-> Some(response)]
                   ELSE NotStarted]

NextEval == \E i \in Invs : CheckSuccessTask(i)

SpecEval == InitEval /\ [][NextEval]_vars

\* ----------------------------------- the evaluation on its log settings
\* Terminal descriptions of each outcome of the evaluation
LogsResponses ==
    StopResponses \cup
    {KilledResponse,
     Described(Some(<<[reason |-> "MISSING"]>>), Missing, <<>>),
     Described(Some(<<>>), Some(HostTerminatedReason), <<>>),
     Described(Some(<<>>), Missing,
               <<Container(Some("PENDING"), Missing, Missing)>>),
     Described(Some(<<>>), Missing,
               <<Container(Some("STOPPED"), Missing, Missing)>>)}

\* One invocation has started or adopted any of the tasks and returned from
\* the wait; the operator has any awslogs arguments and any do_xcom_push, the
\* log streams hold any of the event sequences.
InitLogs ==
    /\ awslogs_group \in AwslogsGroups
    /\ awslogs_stream_prefix \in AwslogsStreamPrefixes
    /\ do_xcom_push \in BOOLEAN
    /\ capacity_provider_strategy = Missing
    /\ launch_type = "EC2"
    /\ platform_version = "LATEST"
    /\ logs \in [LogStreams -> LogEvents]
    /\ pc = [i \in Invs |-> IF i = 1 THEN "EVALUATING" ELSE "INIT"]
    /\ \E r \in BOOLEAN : reattach = [i \in Invs |-> r]
    /\ execution_date = [i \in Invs |-> IF i = 1 THEN 1 ELSE 0]
    /\ client = [i \in Invs |-> i = 1]
    /\ \E a \in Arns :
          /\ arn = [i \in Invs |-> IF i = 1 THEN a ELSE None]
          /\ calls = [i \in Invs |->
                        IF i = 1
                        THEN <<RunTask, [op |-> "wait", cluster |-> cluster,
                                         task |-> a]>>
                        ELSE <<>>]
          /\ xcom = [d \in ExecDates |->
                       IF d = 1 /\ reattach[1] THEN a ELSE None]
          /\ \E response \in LogsResponses :
                ecs = [b \in Arns |->
                         IF b = a
                         THEN [status |-> "STOPPED", stopReason |-> Missing,
                               response |-> Some(response)]
                         ELSE NotStarted]
    /\ raised = [i \in Invs |-> NoException]
    /\ returned = [i \in Invs |-> None]

SpecLogs == InitLogs /\ [][NextEval]_vars

\* --------------------------------------- the start on its launch arguments
\* One invocation is about to start its task; the operator has any launch
\* arguments.
InitStart ==
    /\ awslogs_group = "ecs-logs"
    /\ awslogs_stream_prefix = "ecs/app"
    /\ do_xcom_push = TRUE
    /\ capacity_provider_strategy \in CapacityProviderStrategies
    /\ launch_type \in LaunchTypes
    /\ platform_version \in PlatformVersions
    /\ logs = [s \in LogStreams |-> <<>>]
    /\ pc = [i \in Invs |-> IF i = 1 THEN "STARTING" ELSE "INIT"]
    /\ \E r \in BOOLEAN : reattach = [i \in Invs |-> r]
    /\ execution_date = [i \in Invs |-> IF i = 1 THEN 1 ELSE 0]
    /\ client = [i \in Invs |-> i = 1]
    /\ arn = [i \in Invs |-> None]
    /\ calls = [i \in Invs |-> <<>>]
    /\ raised = [i \in Invs |-> NoException]
    /\ xcom = [d \in ExecDates |-> None]
    /\ ecs = [a \in Arns |-> NotStarted]
    /\ returned = [i \in Invs |-> None]

NextStart ==
    \/ \E i \in Invs : StartTask(i)
    \/ \E i \in Invs : StartTaskRejected(i)

SpecStart == InitStart /\ [][NextStart]_vars

\* ------------------------------------------------------------ properties
HasCall(i, op) == CallsOf(i, op) # {}
RunTaskCalls(i) == Cardinality(CallsOf(i, "run_task"))
Key(i) == execution_date[i]
Waited == {"WAITING", "EVALUATING"} \cup Terminal

\* The invocation logged that it reattached task a (line 320)
Adopted(i, a) ==
    \E k \in CallsOf(i, "log.info") :
        /\ calls[i][k].msg = "Reattaching previously launched task: %s"
        /\ calls[i][k].task = a

\* The invocation logged that it found nothing to reattach (line 322)
Missed(i) ==
    \E k \in CallsOf(i, "log.info") :
        calls[i][k].msg = "No active previously launched task found to reattach"

\* The invocation started task a itself and saved it in XCom
StartedAndStored(i, a) ==
    /\ HasCall(i, "run_task")
    /\ \E k \in CallsOf(i, "xcom_set") : calls[i][k].value = a

\* The step of invocation i that is its call of _try_reattach_task
LookupStep(i) == pc[i] = "REATTACHING" /\ pc'[i] \in {"STARTING", "WAITING"}

\* The calls the invocation has made once the step is taken
RunTaskCallsAfter(i) ==
    Cardinality({k \in 1..Len(calls'[i]) : calls'[i][k].op = "run_task"})

\* C1: with reattach on, when the XCom row of the invocation's key holds a
\* task ARN that is in the list of running tasks, the invocation takes that
\* ARN as self.arn and goes to the wait; an invocation that reattached has
\* made no run_task call and is waiting on, or done with, the adopted ARN.
C1_ReattachAdopts ==
    /\ [][\A i \in Invs :
            (/\ reattach[i]
             /\ LookupStep(i)
             /\ xcom[Key(i)] # None
             /\ xcom[Key(i)] \in Running)
            => (/\ arn'[i] = xcom[Key(i)]
                /\ pc'[i] = "WAITING"
                /\ RunTaskCallsAfter(i) = 0)]_vars
    /\ [](\A i \in Invs : \A a \in Arns :
            Adopted(i, a) => (/\ arn[i] = a
                              /\ ~HasCall(i, "run_task")
                              /\ pc[i] \in Waited))

C1_Witness ==
    \E i \in Invs : \E a \in Arns :
        /\ reattach[i] /\ Adopted(i, a) /\ arn[i] = a
        /\ pc[i] = "WAITING" /\ ~HasCall(i, "run_task")

\* C2: with reattach on, a lookup whose ARN is missing from XCom or from the
\* running tasks raises nothing and leads to the start; the start that
\* succeeds is the invocation's only run_task call, starts a task that did
\* not exist, and the XCom row of the key is then set to the new ARN.
C2_ReattachMissStartsFresh ==
    [][\A i \in Invs : reattach[i] =>
          /\ (LookupStep(i) /\ xcom[Key(i)] \notin Running)
                => (/\ pc'[i] = "STARTING"
                    /\ raised'[i] = NoException
                    /\ arn'[i] = None
                    /\ RunTaskCallsAfter(i) = 0)
          /\ (pc[i] = "STARTING" /\ pc'[i] = "WAITING")
                => (/\ ecs[arn'[i]].status = "NONE"
                    /\ ecs'[arn'[i]].status = "RUNNING"
                    /\ RunTaskCallsAfter(i) = 1
                    /\ xcom'[Key(i)] = arn'[i])]_vars

C2_Witness ==
    \E i, j \in Invs :
        /\ i # j /\ reattach[i] /\ reattach[j] /\ Key(i) = Key(j)
        /\ StartedAndStored(i, arn[i]) /\ pc[i] = "ABANDONED"
        /\ ecs[arn[i]].status = "STOPPED"
        /\ Missed(j) /\ pc[j] = "WAITING" /\ RunTaskCalls(j) = 1
        /\ arn[j] # arn[i] /\ xcom[Key(j)] = arn[j]

QuotaOnly(failures) ==
    /\ Len(failures) > 0
    /\ \A f \in 1..Len(failures) : \E q \in 1..Len(QuotaReasons) :
          Contains(QuotaReasons[q], failures[f].reason)

\* The invocation ended on the launch failures of a run_task response
LaunchFailed(i) == pc[i] = "FAILED" /\ raised[i].type = "ECSOperatorError"

\* C4: a run_task response rejected for a resource quota (RESOURCE:CPU or
\* RESOURCE:MEMORY) is retried: no invocation fails on such a rejection
\* after a single run_task call.
C4_QuotaRejectionRetried ==
    \A i \in Invs :
        (LaunchFailed(i) /\ should_retry(raised[i]) /\ QuotaOnly(raised[i].failures))
        => RunTaskCalls(i) >= 2

\* C5: with reattach on, the step that ends the evaluation, in DONE or in
\* FAILED, leaves no XCom row under the invocation's key.
C5_TerminalStateClearsXCom ==
    [][\A i \in Invs :
          (reattach[i] /\ pc[i] = "EVALUATING" /\ pc'[i] \in {"DONE", "FAILED"})
          => xcom'[Key(i)] = None]_vars

\* C6: on_kill during the wait on task T makes one call, stop_task on the
\* configured cluster for T with the reason 'Task killed by the user', and
\* the cancelled invocation makes no call after it.
C6_KillDuringWaitStopsOnce ==
    [][\A i \in Invs :
          /\ (pc[i] = "WAITING" /\ pc'[i] = "CANCELLED")
                => calls'[i] = Append(calls[i],
                                      [op |-> "stop_task", cluster |-> "c1",
                                       task |-> arn[i],
                                       reason |-> "Task killed by the user"])
          /\ pc[i] = "CANCELLED" => calls'[i] = calls[i]]_vars

C6_Witness ==
    \E i \in Invs :
        /\ pc[i] = "CANCELLED" /\ ~reattach[i] /\ arn[i] # None
        /\ ~HasCall(i, "wait")
        /\ Cardinality(CallsOf(i, "stop_task")) = 1
        /\ calls[i][Len(calls[i])].op = "stop_task"
        /\ ecs[arn[i]].stopReason = Some("Task killed by the user")

\* Some failure of the list carries no resource-quota marker
SomeNonQuota(failures) ==
    \E f \in 1..Len(failures) : \A q \in 1..Len(QuotaReasons) :
        ~Contains(QuotaReasons[q], failures[f].reason)

\* C7: an invocation that ended on a run_task response holding a failure
\* that is not a quota rejection made one run_task call, has no handle,
\* saved nothing in XCom and never waited for or described a task.
C7_HardLaunchFailure ==
    \A i \in Invs :
        (LaunchFailed(i) /\ SomeNonQuota(raised[i].failures))
        => (/\ RunTaskCalls(i) = 1
            /\ arn[i] = None
            /\ ~HasCall(i, "xcom_set")
            /\ ~HasCall(i, "wait")
            /\ ~HasCall(i, "describe_tasks"))

C7_Witness ==
    \E i \in Invs :
        /\ reattach[i] /\ LaunchFailed(i)
        /\ raised[i].failures = <<[reason |-> "AGENT"]>>
        /\ RunTaskCalls(i) = 1 /\ xcom[Key(i)] = None

\* The describe_tasks response the invocation evaluated
Evaluated(i) == ecs[arn[i]].response[1]
HasEvaluated(i) == pc[i] \in {"DONE", "FAILED"} /\ HasCall(i, "describe_tasks")

\* C8: the evaluation of any terminal description ends in Success or in one
\* of the five classified failures, never in anything else.
C8_EvaluatorTotal ==
    \A i \in Invs :
        HasEvaluated(i)
        => \/ pc[i] = "DONE" /\ raised[i] = NoException
           \/ pc[i] = "FAILED" /\ raised[i].verdict \in Failures

\* C9: when the response has no failures and the stop reason of its task is
\* 'Host EC2 (instance i-123) terminated.' or '... stopped.', the verdict is
\* host-terminated whatever the containers of the task are.
C9_HostTerminatedBeatsContainers ==
    \A i \in Invs :
        (/\ HasEvaluated(i)
         /\ Get(Evaluated(i).failures, <<>>) = <<>>
         /\ Evaluated(i).tasks # <<>>
         /\ Evaluated(i).tasks[1].stoppedReason \in
               {Some("Host EC2 (instance i-123) terminated."),
                Some("Host EC2 (instance i-123) stopped.")})
        => (pc[i] = "FAILED" /\ raised[i].verdict = HostTerminated)

C9_Witness ==
    \E i \in Invs :
        /\ HasEvaluated(i)
        /\ Get(Evaluated(i).failures, <<>>) = <<>>
        /\ Evaluated(i).tasks # <<>>
        /\ Evaluated(i).tasks[1].stoppedReason =
              Some("Host EC2 (instance i-123) terminated.")
        /\ Evaluated(i).tasks[1].containers =
              <<Container(Some("STOPPED"), Some(1), Missing),
                Container(Some("PENDING"), Missing,
                          Some("CannotPullContainerError: pull access denied"))>>
        /\ raised[i].verdict = HostTerminated

\* C10: a response whose failures list is not empty gives the verdict
\* service-reported-failure, whatever the stop reason and the containers.
C10_ServiceFailureFirst ==
    \A i \in Invs :
        (HasEvaluated(i) /\ Evaluated(i).failures \notin {Missing, Some(<<>>)})
        => (pc[i] = "FAILED" /\ raised[i].verdict = ServiceReportedFailure)

C10_Witness ==
    \E i \in Invs :
        /\ HasEvaluated(i)
        /\ Evaluated(i).failures = Some(<<[reason |-> "MISSING"]>>)
        /\ Evaluated(i).tasks # <<>>
        /\ Evaluated(i).tasks[1].stoppedReason =
              Some("Host EC2 (instance i-123) terminated.")
        /\ Evaluated(i).tasks[1].containers =
              <<Container(Some("STOPPED"), Some(1), Missing)>>
        /\ raised[i].verdict = ServiceReportedFailure

\* The awslogs arguments name a log group and a stream prefix
LogsConfigured ==
    /\ awslogs_group \notin {None, ""}
    /\ awslogs_stream_prefix \notin {None, ""}

\* The events the log backend holds for the stream of the invocation's task
StreamEvents(i) ==
    logs[CHOOSE s \in LogStreams :
            \E n \in 1..MaxTasks : arn[i] = ArnOf(n) /\ s = LogStreamOf(n)]

\* The message of the final event of the task's stream, None when logs are
\* not configured or the stream is empty
FinalMessage(i) ==
    IF LogsConfigured /\ StreamEvents(i) # <<>>
    THEN StreamEvents(i)[Len(StreamEvents(i))].message
    ELSE None

\* C11 as claimed: every invocation whose evaluation succeeded returned the
\* message of the final event of its task's log stream, or None when logs
\* are not configured or the stream is empty.
C11_SuccessReturnsLastMessage ==
    \A i \in Invs : pc[i] = "DONE" => returned[i] = FinalMessage(i)

\* C11 amended: an invocation whose evaluation succeeded returned, with
\* do_xcom_push set, the message of the final event of its task's log stream
\* or None when logs are not configured or the stream is empty, and with
\* do_xcom_push unset None, without a query of the log stream for it.
C11_SuccessReturnsLastMessageIfPushed ==
    \A i \in Invs :
        pc[i] = "DONE"
        => /\ do_xcom_push => returned[i] = FinalMessage(i)
           /\ ~do_xcom_push =>
                 /\ returned[i] = None
                 /\ Cardinality(CallsOf(i, "get_log_events")) <= 1

C11_Witness ==
    \E i \in Invs :
        /\ pc[i] = "DONE" /\ do_xcom_push /\ LogsConfigured
        /\ Len(StreamEvents(i)) = 2
        /\ returned[i] = "finished"
        /\ Cardinality(CallsOf(i, "get_log_events")) = 2

\* The log stream queries the invocation made
LogQueries(i) == CallsOf(i, "get_log_events")

\* C12: every query of the log backend names the configured group and the
\* stream '<stream prefix>/<last path component of the task ARN>', and the
\* last message returned is the message of the final event of that stream;
\* when the log group or the stream prefix is not configured the invocation
\* makes no query of the log backend and its evaluation, when it succeeds,
\* returns None and raises nothing.
C12_LastMessageOfTaskStream ==
    \A i \in Invs :
        /\ \A k \in LogQueries(i) :
              /\ calls[i][k].group = awslogs_group
              /\ \E n \in 1..MaxTasks :
                    /\ arn[i] = "arn:aws:ecs:task/c1/" \o Digits[n]
                    /\ calls[i][k].stream =
                          awslogs_stream_prefix \o "/" \o Digits[n]
        /\ (LogsConfigured /\ do_xcom_push /\ pc[i] = "DONE")
              => /\ LogQueries(i) # {}
                 /\ returned[i] =
                       IF StreamEvents(i) = <<>> THEN None
                       ELSE StreamEvents(i)[Len(StreamEvents(i))].message
        /\ ~LogsConfigured
              => /\ LogQueries(i) = {}
                 /\ pc[i] = "DONE" => (returned[i] = None /\ raised[i] = NoException)
                 /\ (HasEvaluated(i) /\ CheckResponse(Evaluated(i)) = Success)
                       => pc[i] = "DONE"

C12_Witness ==
    \E i \in Invs :
        /\ pc[i] = "DONE" /\ do_xcom_push
        /\ awslogs_group = "ecs-logs" /\ awslogs_stream_prefix = "ecs/app"
        /\ arn[i] = "arn:aws:ecs:task/c1/2"
        /\ \E k \in LogQueries(i) : calls[i][k].stream = "ecs/app/2"
        /\ logs["ecs/app/2"] = <<LogEvent(1000, "starting"),
                                 LogEvent(2000, "finished")>>
        /\ logs["ecs/app/1"] = <<>>
        /\ returned[i] = "finished"

\* The requests of the run_task calls the invocation made
RunTaskRequests(i) == {calls[i][k].opts : k \in CallsOf(i, "run_task")}

\* C13: the run_task request of an operator with a capacity provider
\* strategy carries that strategy and a platform version and no launch type;
\* the request of an operator with a launch type and no strategy carries the
\* launch type and no strategy, and carries a platform version exactly when
\* the launch type is 'FARGATE'.
C13_LaunchFieldsOfRequest ==
    \A i \in Invs : \A request \in RunTaskRequests(i) :
        /\ (capacity_provider_strategy \notin {Missing, Some(<<>>)})
              => /\ request.capacityProviderStrategy = capacity_provider_strategy
                 /\ request.launchType = Missing
                 /\ request.platformVersion = Some(platform_version)
        /\ (/\ capacity_provider_strategy \in {Missing, Some(<<>>)}
            /\ launch_type \notin {None, ""})
              => /\ request.launchType = Some(launch_type)
                 /\ request.capacityProviderStrategy = Missing
                 /\ (request.platformVersion # Missing) <=> (launch_type = "FARGATE")
                 /\ launch_type = "FARGATE"
                       => request.platformVersion = Some(platform_version)

C13_Witness ==
    \E i \in Invs :
        /\ pc[i] = "WAITING"
        /\ capacity_provider_strategy = Missing
        /\ launch_type = "EC2"
        /\ RunTaskRequests(i) =
              {[cluster |-> "c1", capacityProviderStrategy |-> Missing,
                launchType |-> Some("EC2"), platformVersion |-> Missing]}

\* C14: the step that completes an invocation under reattach changes no XCom
\* row other than the row of the invocation's own key: the rows saved under
\* other execution dates are what they were.
C14_CompletionDeletesOwnKeyOnly ==
    [][\A i \in Invs :
          (reattach[i] /\ pc[i] = "EVALUATING" /\ pc'[i] = "DONE")
          => \A d \in ExecDates : d # Key(i) => xcom'[d] = xcom[d]]_vars

\* The invocation made a run_task call that returned the task it holds
FreshStart(i) ==
    /\ HasCall(i, "run_task")
    /\ arn[i] # None
    /\ \A a \in Arns : ~Adopted(i, a)

\* C15: under reattach an invocation saves an ARN in XCom once for the task
\* it started itself: the save directly follows the run_task call that
\* returned the task, precedes the wait, and writes self.arn under the
\* invocation's key; an invocation whose run_task was rejected, or that
\* adopted its task by reattaching, saves nothing.
C15_PutOncePerFreshStart ==
    \A i \in Invs : reattach[i] =>
        /\ \A k \in CallsOf(i, "xcom_set") :
              /\ k > 1
              /\ calls[i][k - 1].op = "run_task"
              /\ calls[i][k].value = arn[i]
              /\ calls[i][k].date = Key(i)
              /\ \A m \in CallsOf(i, "wait") : m > k
        /\ Cardinality(CallsOf(i, "xcom_set")) = IF FreshStart(i) THEN 1 ELSE 0
        /\ LaunchFailed(i) => ~HasCall(i, "xcom_set")
        /\ (\E a \in Arns : Adopted(i, a)) => ~HasCall(i, "xcom_set")

C15_Witness ==
    \E i \in Invs :
        /\ reattach[i] /\ Missed(i) /\ FreshStart(i)
        /\ pc[i] = "EVALUATING"
        /\ calls[i][Len(calls[i]) - 2].op = "run_task"
        /\ calls[i][Len(calls[i]) - 1] =
              [op |-> "xcom_set", date |-> Key(i), value |-> arn[i]]
        /\ calls[i][Len(calls[i])].op = "wait"

\* The failure the container checks name for one container, Success for a
\* container none of them matches: stopped with a non-zero exit code, then
\* pending, then a reason holding 'error' in any case
ContainerFailure(container) ==
    IF /\ container.lastStatus = Some("STOPPED")
       /\ container.exitCode \notin {Missing, Some(0)}
    THEN ContainerNonZeroExit
    ELSE IF container.lastStatus = Some("PENDING")
    THEN ContainerStillPending
    ELSE IF container.reason = Some("CannotPullContainerError: pull access denied")
    THEN ContainerLaunchError
    ELSE Success

\* C16: when the response has no failures and its task was not stopped with
\* its host, the verdict is the failure of the first container, in the order
\* of the list, that one of the container checks matches, and Success when
\* no container matches any.
C16_FirstContainerFailure ==
    \A i \in Invs :
        (/\ HasEvaluated(i)
         /\ Get(Evaluated(i).failures, <<>>) = <<>>
         /\ Evaluated(i).tasks # <<>>
         /\ Evaluated(i).tasks[1].stoppedReason \notin
               {Some("Host EC2 (instance i-123) terminated."),
                Some("Host EC2 (instance i-123) stopped.")})
        => LET containers == Evaluated(i).tasks[1].containers
               failing == {k \in 1..Len(containers) :
                             ContainerFailure(containers[k]) # Success}
           IN  IF failing = {}
               THEN pc[i] = "DONE" /\ raised[i] = NoException
               ELSE /\ pc[i] = "FAILED"
                    /\ raised[i].verdict =
                          ContainerFailure(
                              containers[CHOOSE k \in failing :
                                            \A m \in failing : k <= m])

\* The task the invocation holds is stopped
TaskStopped(i) == arn[i] # None /\ ecs[arn[i]].status = "STOPPED"

\* C17: an invocation leaves the wait for the evaluation only when its task
\* is stopped, and has called describe_tasks only on a stopped task; while
\* the task is not stopped the invocation stays in the wait unless it is
\* killed or abandoned; an invocation whose task is stopped while it waits
\* ends in DONE or FAILED unless it is killed or abandoned first.
C17_WaitEndsOnlyOnStopped ==
    /\ [][\A i \in Invs :
            /\ (pc[i] = "WAITING" /\ pc'[i] = "EVALUATING") => TaskStopped(i)
            /\ (pc[i] = "WAITING" /\ ~TaskStopped(i))
                  => pc'[i] \in {"WAITING", "CANCELLED", "ABANDONED"}]_vars
    /\ [](\A i \in Invs : HasCall(i, "describe_tasks") => TaskStopped(i))
    /\ \A i \in Invs :
          (pc[i] = "WAITING" /\ TaskStopped(i))
             ~> (pc[i] \in {"DONE", "FAILED", "CANCELLED", "ABANDONED"})

C17_Witness ==
    \E i, j \in Invs :
        /\ pc[i] = "FAILED" /\ HasCall(i, "wait") /\ TaskStopped(i)
        /\ raised[i].verdict = ContainerNonZeroExit
        /\ pc[j] = "WAITING" /\ arn[j] # None /\ ~TaskStopped(j)

\* C18: with logs configured, every evaluation reads the log stream of its
\* task in the call that directly follows describe_tasks, whether it ends in
\* DONE or in FAILED: the invocation that failed made the same describe and
\* log calls, in the same order, before its exception was raised.
C18_LogsReadWhateverTheVerdict ==
    \A i \in Invs :
        (HasEvaluated(i) /\ LogsConfigured)
        => \E k \in CallsOf(i, "describe_tasks") :
              /\ Cardinality(CallsOf(i, "describe_tasks")) = 1
              /\ k < Len(calls[i])
              /\ calls[i][k + 1].op = "get_log_events"
              /\ calls[i][k + 1].group = awslogs_group
              /\ pc[i] = "FAILED" =>
                    /\ raised[i] # NoException
                    /\ Len(calls[i]) = k + 1

C18_Witness ==
    \E i \in Invs :
        /\ pc[i] = "FAILED" /\ LogsConfigured
        /\ raised[i].verdict = ContainerNonZeroExit
        /\ Len(StreamEvents(i)) = 2
        /\ calls[i][Len(calls[i]) - 1].op = "describe_tasks"
        /\ calls[i][Len(calls[i])].op = "get_log_events"

\* The calls that read or write the XCom row of the reattach key, and the
\* two ECS queries of the lookup
ReattachOps ==
    {"xcom_pull", "xcom_set", "xcom_del",
     "describe_task_definition", "list_tasks"}

\* C19: an invocation without reattach makes no XCom lookup, save or delete
\* and no describe_task_definition or list_tasks call, none of its steps
\* changes an XCom row, it adopts no task, and once it is past the start it
\* has made exactly one run_task call.
C19_NoReattachNoXCom ==
    /\ [](\A i \in Invs : ~reattach[i] =>
            /\ \A k \in 1..Len(calls[i]) : calls[i][k].op \notin ReattachOps
            /\ \A a \in Arns : ~Adopted(i, a)
            /\ pc[i] \in {"WAITING", "EVALUATING", "DONE", "FAILED", "ABANDONED"}
                  => RunTaskCalls(i) = 1)
    /\ [][\A i \in Invs :
            (~reattach[i] /\ pc'[i] # pc[i]) => xcom' = xcom]_vars

C19_Witness ==
    \E i, j \in Invs :
        /\ ~reattach[i] /\ pc[i] = "DONE"
        /\ calls[i][1].op = "run_task" /\ calls[i][2].op = "wait"
        /\ calls[i][3].op = "describe_tasks"
        /\ reattach[j] /\ Key(j) = Key(i) /\ pc[j] = "WAITING"
        /\ xcom[Key(i)] = arn[j] /\ arn[j] # arn[i]

\* C20: the step of on_kill appends one stop_task call, for self.arn, when
\* the client and self.arn are set, and no call otherwise; it changes
\* neither the ARN held nor any XCom row; a kill that arrives before a task
\* ARN is held (before execute, during the lookup or during the start) makes
\* no call and leaves the tasks of the service as they are.
C20_KillStopsOnlyHeldTask ==
    [][\A i \in Invs :
          (pc[i] # "CANCELLED" /\ pc'[i] = "CANCELLED")
          => /\ arn' = arn
             /\ xcom' = xcom
             /\ calls'[i] =
                   IF client[i] /\ arn[i] # None
                   THEN Append(calls[i],
                               [op |-> "stop_task", cluster |-> "c1",
                                task |-> arn[i],
                                reason |-> "Task killed by the user"])
                   ELSE calls[i]
             /\ pc[i] \in {"INIT", "REATTACHING", "STARTING"}
                   => (calls'[i] = calls[i] /\ ecs' = ecs)]_vars

C20_Witness ==
    \E i, j \in Invs :
        /\ pc[i] = "CANCELLED" /\ reattach[i] /\ Missed(i)
        /\ client[i] /\ arn[i] = None /\ ~HasCall(i, "stop_task")
        /\ pc[j] = "CANCELLED" /\ arn[j] # None
        /\ Cardinality(CallsOf(j, "stop_task")) = 1

====
